---- MODULE Spec2Model ----
(***************************************************************************)
(* Model of the two scraping utilities of the repository:                  *)
(*   src/scrapeExchangeRates/scrapeExchangeRates.py  (XRatesScraper, main) *)
(*   src/scrape-anywebsite/scrape.py                 (page snapshot)       *)
(*                                                                         *)
(* Text is a sequence of one-character strings.  A Python dict is a        *)
(* sequence of <<key, value>> pairs in insertion order.  A float is a      *)
(* record [num, scale] standing for num / 10^scale, with no trailing zero  *)
(* in the fraction.                                                        *)
(***************************************************************************)
EXTENDS Integers, Sequences, FiniteSets, TLC

VARIABLES
  pc,          \* position of the running program / call
  response,    \* get_year_data: what session.get(url) produced
  result,      \* get_year_data / save_to_excel: the returned value
  start_year,  \* scrape_multiple_years argument
  end_year,    \* scrape_multiple_years argument
  year,        \* loop variable of scrape_multiple_years
  year_data,   \* value returned by the last get_year_data call
  all_data,    \* accumulating dict month -> (dict year -> rate)
  log,         \* fetches and inter-year sleeps, in the order they happen
  fetched,     \* <<year, returned value>> of every get_year_data call
  df,          \* the DataFrame
  out_arg,     \* the filename argument (args.output)
  disk,        \* the spreadsheet file on disk
  disk0,       \* the spreadsheet file before the run
  save_calls,  \* number of calls of save_to_excel
  fault,       \* save_to_excel: where the spreadsheet writer failed, if it did
  stdout,      \* final message printed by main
  browser,     \* snapshot tool: the webdriver session
  navigated,   \* snapshot tool: driver.get(url) returned
  writes,      \* snapshot tool: times scraper.html was opened for writing
  dom,         \* snapshot tool: markup currently rendered in the browser
  waited,      \* snapshot tool: time.sleep(5) has elapsed
  html_content,\* snapshot tool: the markup read from the driver
  file,        \* snapshot tool: scraper.html on disk
  file0        \* snapshot tool: scraper.html before the run

vars == <<pc, response, result, start_year, end_year, year, year_data, all_data,
          log, fetched, df, out_arg, disk, disk0, save_calls, fault, stdout,
          browser, navigated, writes, dom, waited, html_content, file, file0>>

fetchVars == <<response, result>>
aggVars   == <<start_year, end_year, year, year_data, all_data, log, fetched>>
saveVars  == <<out_arg, disk, disk0, save_calls, fault, stdout>>
snapVars  == <<browser, navigated, writes, dom, waited, html_content, file,
               file0>>

(***************************************************************************)
(* Bounds of the model.                                                    *)
(***************************************************************************)
MaxYears   == 3   \* years a run may range over
MaxEntries == 2   \* <li> entries of a page in the single-year specification

(***************************************************************************)
(* Generic helpers.                                                        *)
(***************************************************************************)
Range(s) == {s[i] : i \in 1..Len(s)}

Min(a, b) == IF a < b THEN a ELSE b

RECURSIVE SeqFilter(_, _)
\* [x for x in s if x in keep]
SeqFilter(s, keep) ==
  IF s = <<>> THEN <<>>
  ELSE IF Head(s) \in keep THEN <<Head(s)>> \o SeqFilter(Tail(s), keep)
       ELSE SeqFilter(Tail(s), keep)

\* Python dict, as a sequence of <<key, value>> pairs in insertion order
DictKeys(d) == [i \in 1..Len(d) |-> d[i][1]]
DictHas(d, k) == \E i \in 1..Len(d) : d[i][1] = k
DictGet(d, k) == d[CHOOSE i \in 1..Len(d) : d[i][1] = k][2]
DictSet(d, k, v) ==
  IF DictHas(d, k)
  THEN [i \in 1..Len(d) |-> IF d[i][1] = k THEN <<k, v>> ELSE d[i]]
  ELSE Append(d, <<k, v>>)

(***************************************************************************)
(* Text and numbers.                                                       *)
(***************************************************************************)
Digits == {"0", "1", "2", "3", "5", "8"}
Whitespace == {" "}

DigitVal(c) ==
  CASE c = "0" -> 0 [] c = "1" -> 1 [] c = "2" -> 2
    [] c = "3" -> 3 [] c = "5" -> 5 [] c = "8" -> 8

RECURSIVE Strip(_)
\* str.strip(): leading and trailing whitespace removed
Strip(s) ==
  IF s = <<>> THEN <<>>
  ELSE IF Head(s) \in Whitespace THEN Strip(Tail(s))
  ELSE IF s[Len(s)] \in Whitespace THEN Strip(SubSeq(s, 1, Len(s) - 1))
  ELSE s

\* the character class of the pattern r'[\d.]+' with a sign admitted
IsRateChar_Signed(c) == c \in Digits \cup {".", "-"}

\* the character class of the pattern r'[\d.]+'
IsRateChar(c) == c \in Digits \cup {"."}

\* re.search(r'[\d.]+', s): the leftmost maximal run of class characters
HasMatch(s) == \E i \in 1..Len(s) : IsRateChar(s[i])

FirstMatch(s) ==
  LET first == CHOOSE i \in 1..Len(s) :
                 /\ IsRateChar(s[i])
                 /\ \A j \in 1..(i - 1) : ~IsRateChar(s[j])
      last  == CHOOSE k \in first..Len(s) :
                 /\ \A j \in first..k : IsRateChar(s[j])
                 /\ (k = Len(s) \/ ~IsRateChar(s[k + 1]))
  IN SubSeq(s, first, last)

RECURSIVE ToNat(_)
\* the number a sequence of digits writes
ToNat(ds) ==
  IF ds = <<>> THEN 0
  ELSE 10 * ToNat(SubSeq(ds, 1, Len(ds) - 1)) + DigitVal(ds[Len(ds)])

RECURSIVE DropTrailingZeros(_)
DropTrailingZeros(ds) ==
  IF ds # <<>> /\ ds[Len(ds)] = "0"
  THEN DropTrailingZeros(SubSeq(ds, 1, Len(ds) - 1))
  ELSE ds

\* float(t) accepts t: an optional sign, then digits with at most one point
\* and at least one digit
Unsigned(t) == IF t # <<>> /\ Head(t) \in {"-", "+"} THEN Tail(t) ELSE t

FloatOk(t) ==
  LET u == Unsigned(t)
  IN /\ \A i \in 1..Len(u) : u[i] \in Digits \cup {"."}
     /\ Cardinality({i \in 1..Len(u) : u[i] = "."}) <= 1
     /\ \E i \in 1..Len(u) : u[i] \in Digits

\* float(t) where FloatOk(t)
Float(t) ==
  LET u    == Unsigned(t)
      dot  == IF \E i \in 1..Len(u) : u[i] = "."
              THEN CHOOSE i \in 1..Len(u) : u[i] = "."
              ELSE Len(u) + 1
      ip   == SubSeq(u, 1, dot - 1)
      fp   == DropTrailingZeros(SubSeq(u, dot + 1, Len(u)))
      n    == ToNat(ip \o fp)
  IN [num |-> IF t # <<>> /\ Head(t) = "-" THEN 0 - n ELSE n, scale |-> Len(fp)]

(***************************************************************************)
(* get_year_data (lines 24-75).                                            *)
(***************************************************************************)
Jan == <<"J", "a", "n">>
Feb == <<"F", "e", "b">>
Mar == <<"M", "a", "r">>
Apr == <<"A", "p", "r">>
May == <<"M", "a", "y">>
Jun == <<"J", "u", "n">>
Jul == <<"J", "u", "l">>
Aug == <<"A", "u", "g">>
Sep == <<"S", "e", "p">>
Oct == <<"O", "c", "t">>
Nov == <<"N", "o", "v">>
Dec == <<"D", "e", "c">>

\* a month text that is no month label
Foo == <<"F", "o", "o">>

\* None, and the dict a call returns
None == [isNone |-> TRUE, items |-> <<>>]
Dict(items) == [isNone |-> FALSE, items |-> items]

\* bool(x) of a value that is None or a dict
Truthy(x) == ~x.isNone /\ x.items # <<>>

\* li.find('span', class_=...): the sub-element, when the entry has it
NoSpan == [present |-> FALSE, text |-> <<>>]
Span(t) == [present |-> TRUE, text |-> t]
Li(m, r) == [month |-> m, rate |-> r]

\* what session.get / raise_for_status / soup.find produce
RequestExceptions == {"Timeout", "ConnectionError", "HTTPError"}
Failure(e) == [kind |-> e, container |-> FALSE, entries |-> <<>>]
NoContainer == [kind |-> "page", container |-> FALSE, entries |-> <<>>]
Page(entries) == [kind |-> "page", container |-> TRUE, entries |-> entries]
NoResponse == [kind |-> "none", container |-> FALSE, entries |-> <<>>]

\* how the body of the try block ends
Return(v) == [kind |-> "return", exc |-> "", value |-> v]
Raise(e) == [kind |-> "raise", exc |-> e, value |-> None]

\* an entry takes part when both sub-elements are there (line 57)
BothSpans(li) == li.month.present /\ li.rate.present

RECURSIVE ParseEntries(_, _)
\* the for loop over the <li> entries (lines 53-65); float() raises ValueError
ParseEntries(entries, yd) ==
  IF entries = <<>> THEN Return(Dict(yd))
  ELSE LET li == Head(entries)
       IN IF BothSpans(li)
          THEN LET month     == Strip(li.month.text)
                   rate_text == Strip(li.rate.text)
               IN IF HasMatch(rate_text)
                  THEN IF FloatOk(FirstMatch(rate_text))
                       THEN ParseEntries(Tail(entries),
                              DictSet(yd, month, Float(FirstMatch(rate_text))))
                       ELSE Raise("ValueError")
                  ELSE ParseEntries(Tail(entries), yd)
          ELSE ParseEntries(Tail(entries), yd)

\* the body of the try block (lines 31-68)
TryBody(resp) ==
  IF resp.kind \in RequestExceptions THEN Raise(resp.kind)
  ELSE IF ~resp.container THEN Return(None)
  ELSE ParseEntries(resp.entries, <<>>)

\* the except clauses, which let RequestException alone through to the caller
Handlers_RequestOnly(r) ==
  IF r.kind = "raise" /\ r.exc \in RequestExceptions THEN Return(None) ELSE r

\* the except clauses (lines 70-75): RequestException, then Exception
Handlers(r) ==
  IF r.kind = "raise"
  THEN IF r.exc \in RequestExceptions THEN Return(None) ELSE Return(None)
  ELSE r

GetYearData(resp) == Handlers(TryBody(resp))

\* the texts a page may hold
MonthTexts == {Jan, <<" ", "F", "e", "b", " ">>, Foo}
RateTexts ==
  { <<"8", "3", ".", "1", "2", " ", "r">>,        \* 83.12 and a currency sign
    <<"n", "o", " ", "d", "a", "t", "a">>,
    <<"N", ".", "A", ".">>,
    <<"1", ".", "2", ".", "3">>,
    <<"-", "5">>,
    <<"1", "2", ".">>,
    <<".", "5", "0">>,
    <<"x", " ", "8", "0", " ", "y", " ", "2">>,
    <<>> }
Spans(texts) == {NoSpan} \cup {Span(t) : t \in texts}
Entries == {Li(m, r) : m \in Spans(MonthTexts), r \in Spans(RateTexts)}
EntryLists(n) == UNION {[1..k -> Entries] : k \in 0..n}
Responses ==
  {Failure(e) : e \in RequestExceptions} \cup {NoContainer}
    \cup {Page(es) : es \in EntryLists(MaxEntries)}

\* one call of get_year_data
GetYearDataCall ==
  /\ pc = "call"
  /\ \E r \in Responses :
       /\ response' = r
       /\ result' = GetYearData(r)
  /\ pc' = "returned"
  /\ UNCHANGED <<aggVars, df, saveVars, snapVars>>

(***************************************************************************)
(* scrape_multiple_years (lines 77-113).                                   *)
(***************************************************************************)
month_order == <<Jan, Feb, Mar, Apr, May, Jun, Jul, Aug, Sep, Oct, Nov, Dec>>

YearRange == 2019 .. (2018 + MaxYears)

\* lines 89-94: one year's result merged into all_data
RECURSIVE MergeItems(_, _, _)
MergeItems(ad, y, items) ==
  IF items = <<>> THEN ad
  ELSE LET month == Head(items)[1]
           rate  == Head(items)[2]
           row   == IF DictHas(ad, month) THEN DictGet(ad, month) ELSE <<>>
       IN MergeItems(DictSet(ad, month, DictSet(row, y, rate)), y, Tail(items))

Merge(ad, y, yd) == IF Truthy(yd) THEN MergeItems(ad, y, yd.items) ELSE ad

\* the delay taken only after a year that gave data
LogAfterYear_SleepOnData(lg, y, yd) ==
  IF Truthy(yd) THEN Append(lg, <<"sleep", y>>) ELSE lg

\* line 97: time.sleep(2), whatever the fetch gave
LogAfterYear(lg, y, yd) == Append(lg, <<"sleep", y>>)

RECURSIVE SortAsc(_)
\* the elements of a sequence without repetition, in ascending order
SortAsc(s) ==
  IF s = <<>> THEN <<>>
  ELSE LET m == CHOOSE x \in Range(s) : \A z \in Range(s) : x <= z
       IN <<m>> \o SortAsc(SeqFilter(s, Range(s) \ {m}))

RECURSIVE UnionKeys(_, _)
\* the keys of the inner dicts, each once, in the order first seen
UnionKeys(ad, seen) ==
  IF ad = <<>> THEN seen
  ELSE LET ks == DictKeys(Head(ad)[2])
       IN UnionKeys(Tail(ad), seen \o SeqFilter(ks, Range(ks) \ Range(seen)))

\* line 100: pd.DataFrame(all_data).T, months as rows and years as columns
DataFrameT(ad) ==
  [index |-> DictKeys(ad), columns |-> UnionKeys(ad, <<>>), cells |-> ad]

\* the observed month labels kept in the order they were first seen
ExistingMonths_Unordered(frame) == SeqFilter(frame.index, Range(month_order))

\* line 107: [month for month in month_order if month in df.index]
ExistingMonths(frame) == SeqFilter(month_order, Range(frame.index))

RECURSIVE RowsOf(_, _)
RowsOf(cells, idx) ==
  IF idx = <<>> THEN <<>>
  ELSE <<<<Head(idx), IF DictHas(cells, Head(idx))
                      THEN DictGet(cells, Head(idx)) ELSE <<>>>>>>
         \o RowsOf(cells, Tail(idx))

\* line 108: df.reindex(rows)
Reindex(frame, rows) ==
  [index |-> rows, columns |-> frame.columns, cells |-> RowsOf(frame.cells, rows)]

\* line 111: df.sort_index(axis=1)
SortColumns(frame) == [frame EXCEPT !.columns = SortAsc(frame.columns)]

\* lines 100-113
BuildFrame(ad) ==
  LET frame == DataFrameT(ad)
  IN SortColumns(Reindex(frame, ExistingMonths(frame)))

\* a table cell holds a rate
HasCell(frame, m, y) ==
  /\ m \in Range(frame.index) /\ y \in Range(frame.columns)
  /\ DictHas(frame.cells, m) /\ DictHas(DictGet(frame.cells, m), y)

\* df.empty, judged by the columns alone
FrameEmpty_ColumnsOnly(frame) == frame.columns = <<>>

\* df.empty: an axis of length 0
FrameEmpty(frame) == frame.index = <<>> \/ frame.columns = <<>>

\* the responses a year of a run may get
R8312 == <<"8", "3", ".", "1", "2", " ", "r">>
AggResponses ==
  { Failure("Timeout"), Failure("ConnectionError"), Failure("HTTPError"),
    NoContainer,
    Page(<<>>),
    Page(<<Li(Span(Jan), Span(R8312))>>),
    Page(<<Li(Span(<<" ", "F", "e", "b", " ">>), Span(<<"8", "0">>)),
           Li(NoSpan, Span(R8312)),
           Li(Span(Jan), Span(<<".", "5", "0">>))>>),
    Page(<<Li(Span(Foo), Span(<<"1", "2", ".">>))>>),
    Page(<<Li(Span(Jan), Span(R8312)),
           Li(Span(Feb), Span(<<"N", ".", "A", ".">>))>>) }

\* main, lines 192-201: the range handed to scrape_multiple_years
MainStart ==
  /\ pc = "main"
  /\ \E current_year \in YearRange, args_start \in YearRange,
        args_end \in YearRange \cup {0}, current_year_only \in BOOLEAN :
       \* args_end = 0 stands for an --end-year that was not given
       IF current_year_only
       THEN start_year' = current_year /\ end_year' = current_year
       ELSE /\ start_year' = args_start
            /\ end_year' = IF args_end # 0 THEN args_end ELSE current_year
  /\ year' = start_year'
  /\ pc' = "loop"
  /\ UNCHANGED <<fetchVars, year_data, all_data, log, fetched, df, saveVars, snapVars>>

\* lines 86-87: the next year of the range is fetched
Fetch ==
  /\ pc = "loop" /\ year <= end_year
  /\ \E r \in AggResponses :
       LET outcome == GetYearData(r)
       IN /\ response' = r
          /\ log' = Append(log, <<"fetch", year>>)
          /\ IF outcome.kind = "raise"
             THEN /\ pc' = "crashed"
                  /\ UNCHANGED <<year_data, fetched>>
             ELSE /\ pc' = "merge"
                  /\ year_data' = outcome.value
                  /\ fetched' = Append(fetched, <<year, r, outcome.value>>)
  /\ UNCHANGED <<result, start_year, end_year, year, all_data, df, saveVars, snapVars>>

\* lines 89-97: merge, then the delay
MergeAndSleep ==
  /\ pc = "merge"
  /\ all_data' = Merge(all_data, year, year_data)
  /\ log' = LogAfterYear(log, year, year_data)
  /\ year' = year + 1
  /\ pc' = "loop"
  /\ UNCHANGED <<fetchVars, start_year, end_year, year_data, fetched, df, saveVars, snapVars>>

\* lines 99-113: the table is built and returned to main
BuildTable ==
  /\ pc = "loop" /\ year > end_year
  /\ df' = BuildFrame(all_data)
  /\ pc' = "check"
  /\ UNCHANGED <<fetchVars, aggVars, saveVars, snapVars>>

(***************************************************************************)
(* save_to_excel (lines 115-170).                                          *)
(***************************************************************************)
MaxWidth == 15

\* a filename, or None
NoName == [isNone |-> TRUE, name |-> ""]
Name(n) == [isNone |-> FALSE, name |-> n]
NameTruthy(f) == ~f.isNone /\ f.name # ""

\* lines 119-121: the name built from the currency pair and the time
DefaultFilename == Name("exchange_rates_USD_to_INR_timestamp.xlsx")
Filename(arg) == IF arg.isNone THEN DefaultFilename ELSE arg

\* cell values of the sheet
LabelCell(t) == [kind |-> "label", text |-> t, num |-> 0, scale |-> 0]
YearCell(y) == [kind |-> "year", text |-> <<>>, num |-> y, scale |-> 0]
RateCell(v) == [kind |-> "rate", text |-> <<>>, num |-> v.num, scale |-> v.scale]
BlankCell == [kind |-> "blank", text |-> <<>>, num |-> 0, scale |-> 0]
MonthLabel == <<"M", "o", "n", "t", "h">>

RECURSIVE NumDigits(_)
NumDigits(n) == IF n < 10 THEN 1 ELSE 1 + NumDigits(n \div 10)

RECURSIVE Pow10(_)
Pow10(k) == IF k = 0 THEN 1 ELSE 10 * Pow10(k - 1)

\* len(str(cell.value)); a float always shows a fraction digit
StrLen(v) ==
  CASE v.kind = "label" -> Len(v.text)
    [] v.kind = "year"  -> NumDigits(v.num)
    [] v.kind = "rate"  -> NumDigits(v.num \div Pow10(v.scale)) + 1
                             + (IF v.scale = 0 THEN 1 ELSE v.scale)
    [] v.kind = "blank" -> 0

NoFile == [exists |-> FALSE, intact |-> FALSE, cells |-> {}, bold |-> {},
           centered |-> {}, filled |-> {}, widths |-> <<>>]
\* a file left behind by a writer that failed part-way
PartialFile == [exists |-> TRUE, intact |-> FALSE, cells |-> {}, bold |-> {},
                centered |-> {}, filled |-> {}, widths |-> <<>>]

\* line 127: df.to_excel(writer, index_label='Month'), a header row and then
\* one row per index entry
ToExcel(frame) ==
  {[row |-> 1, col |-> 1, val |-> LabelCell(MonthLabel)]}
    \cup {[row |-> 1, col |-> 1 + j, val |-> YearCell(frame.columns[j])] :
            j \in 1..Len(frame.columns)}
    \cup {[row |-> 1 + i, col |-> 1, val |-> LabelCell(frame.index[i])] :
            i \in 1..Len(frame.index)}
    \cup {[row |-> 1 + i, col |-> 1 + j,
           val |-> IF HasCell(frame, frame.index[i], frame.columns[j])
                   THEN RateCell(DictGet(DictGet(frame.cells, frame.index[i]),
                                         frame.columns[j]))
                   ELSE BlankCell] :
            i \in 1..Len(frame.index), j \in 1..Len(frame.columns)}

\* the month column styled one row too far
MonthRows_OneMore(frame) == 2 .. (Len(frame.index) + 2)

\* line 147: range(2, len(df) + 2)
MonthRows(frame) == 2 .. (Len(frame.index) + 1)

\* worksheet['A<row>'] makes the cell when the sheet does not have it
Touch(cells, rows) ==
  cells \cup {[row |-> r, col |-> 1, val |-> BlankCell] :
                r \in {q \in rows : ~\E c \in cells : c.row = q /\ c.col = 1}}

MaxOf(S) == IF S = {} THEN 0 ELSE CHOOSE x \in S : \A z \in S : z <= x

\* lines 125-163: the sheet written and formatted
Workbook(frame) ==
  LET cells  == Touch(ToExcel(frame), MonthRows(frame))
      cols   == {c.col : c \in cells}
      header == {<<c.row, c.col>> : c \in {d \in cells : d.row = 1}}
      months == {<<r, 1>> : r \in MonthRows(frame)}
  IN [exists |-> TRUE, intact |-> TRUE, cells |-> cells,
      bold |-> header \cup months,
      centered |-> header \cup months,
      filled |-> header,
      widths |-> [k \in cols |->
                    Min(MaxOf({StrLen(c.val) : c \in {d \in cells : d.col = k}}) + 2,
                        MaxWidth)]]

\* where the writer may fail
Faults == {"none", "open", "to_excel", "format", "close"}

\* an except clause that reports the failure and raises it again
SaveHandlers_Reraise(r) == r

\* lines 168-170: except Exception, return None
SaveHandlers(r) ==
  IF r.kind = "raise" THEN [kind |-> "return", exc |-> "", value |-> NoName] ELSE r

\* lines 123-166: the try block ends by returning the filename or by raising
SaveTry(filename, flt) ==
  IF flt = "none"
  THEN [kind |-> "return", exc |-> "", value |-> filename]
  ELSE [kind |-> "raise", exc |-> flt, value |-> NoName]

\* the file after the call: the workbook when all went well; after a failure
\* past the opening of the writer, the old file or a partial one
DiskAfter(old, frame, flt) ==
  IF flt = "none" THEN {Workbook(frame)}
  ELSE IF flt = "open" THEN {old}
  ELSE {old, PartialFile}

SaveToExcel(from, to) ==
  /\ pc = from
  /\ save_calls' = save_calls + 1
  /\ \E flt \in Faults :
       LET outcome == SaveHandlers(SaveTry(Filename(out_arg), flt))
       IN /\ fault' = flt
          /\ result' = outcome
          /\ disk' \in DiskAfter(disk, df, flt)
          /\ pc' = IF outcome.kind = "raise" THEN "crashed" ELSE to
  /\ UNCHANGED <<response, aggVars, df, out_arg, disk0, stdout, snapVars>>

(***************************************************************************)
(* main (lines 172-221).                                                   *)
(***************************************************************************)
\* line 203
MainCheck ==
  /\ pc = "check"
  /\ IF ~FrameEmpty(df)
     THEN pc' = "save" /\ UNCHANGED stdout
     ELSE pc' = "done" /\ stdout' = "no data was collected"
  /\ UNCHANGED <<fetchVars, aggVars, df, out_arg, disk, disk0, save_calls, fault,
                 snapVars>>

\* lines 216-219
Report ==
  /\ pc = "report"
  /\ stdout' = IF NameTruthy(result.value) THEN "successfully saved"
                                           ELSE "failed to save"
  /\ pc' = "done"
  /\ UNCHANGED <<fetchVars, aggVars, df, out_arg, disk, disk0, save_calls, fault,
                 snapVars>>

EmptyFrame == [index |-> <<>>, columns |-> <<>>, cells |-> <<>>]
OutArgs == {NoName, Name("rates.xlsx")}
NoResult == [kind |-> "none", exc |-> "", value |-> NoName]

(***************************************************************************)
(* The page snapshot script (scrape.py).                                   *)
(***************************************************************************)
NoMarkup == [set |-> FALSE, text |-> <<>>]
Markup(t) == [set |-> TRUE, text |-> t]
Htmls == {Markup(<<"<html>", "loading", "</html>">>),
          Markup(<<"<html>", "diff", "</html>">>),
          Markup(<<>>)}

NoHtmlFile == [exists |-> FALSE, text |-> <<>>]
HtmlFile(t) == [exists |-> TRUE, text |-> t]

\* a failure that is swallowed, the script going on with its next statement
OnUncaught_Swallow(next) == next

\* no statement of the script is inside a try: a failure ends the process
OnUncaught(next) == "crashed"

\* line 13: webdriver.Chrome(service=service, options=options)
Launch ==
  /\ pc = "launch"
  /\ \/ browser' = "open" /\ pc' = "get"
     \/ UNCHANGED browser /\ pc' = OnUncaught("get")
  /\ UNCHANGED <<fetchVars, aggVars, df, saveVars, navigated, writes, dom, waited,
                 html_content, file, file0>>

\* line 17: driver.get(url)
Get ==
  /\ pc = "get"
  /\ \/ /\ navigated' = TRUE
        /\ dom' \in Htmls
        /\ pc' = "sleep"
     \/ /\ UNCHANGED <<navigated, dom>>
        /\ pc' = OnUncaught("sleep")
  /\ UNCHANGED <<fetchVars, aggVars, df, saveVars, browser, writes, waited,
                 html_content, file, file0>>

\* the page's scripts change the rendered markup while the script waits
Render ==
  /\ pc = "sleep" /\ navigated
  /\ dom' \in Htmls \ {dom}
  /\ UNCHANGED <<pc, fetchVars, aggVars, df, saveVars, browser, navigated, writes,
                 waited, html_content, file, file0>>

\* line 20: time.sleep(5)
Sleep ==
  /\ pc = "sleep"
  /\ waited' = TRUE
  /\ pc' = "read"
  /\ UNCHANGED <<fetchVars, aggVars, df, saveVars, browser, navigated, writes, dom,
                 html_content, file, file0>>

\* line 23: html_content = driver.page_source
ReadSource ==
  /\ pc = "read"
  /\ \/ html_content' = dom /\ pc' = "write"
     \/ UNCHANGED html_content /\ pc' = OnUncaught("write")
  /\ UNCHANGED <<fetchVars, aggVars, df, saveVars, browser, navigated, writes, dom,
                 waited, file, file0>>

\* lines 26-27: open(..., "w") truncates the file, write fills it
WriteFile ==
  /\ pc = "write"
  /\ \/ /\ writes' = writes + 1
        /\ file' = HtmlFile(html_content.text)
        /\ pc' = "quit"
     \/ /\ writes' = writes + 1
        /\ file' = HtmlFile(<<>>)
        /\ pc' = OnUncaught("quit")
     \/ /\ UNCHANGED <<writes, file>>
        /\ pc' = OnUncaught("quit")
  /\ UNCHANGED <<fetchVars, aggVars, df, saveVars, browser, navigated, dom, waited,
                 html_content, file0>>

\* line 30: driver.quit()
Quit ==
  /\ pc = "quit"
  /\ browser' = "closed"
  /\ pc' = "print"
  /\ UNCHANGED <<fetchVars, aggVars, df, saveVars, navigated, writes, dom, waited,
                 html_content, file, file0>>

\* line 32
PrintSaved ==
  /\ pc = "print"
  /\ stdout' = "HTML content saved"
  /\ pc' = "done"
  /\ UNCHANGED <<fetchVars, aggVars, df, out_arg, disk, disk0, save_calls, fault,
                 snapVars>>

IdleAgg ==
  /\ start_year = 0 /\ end_year = 0 /\ year = 0 /\ year_data = None
  /\ all_data = <<>> /\ log = <<>> /\ fetched = <<>>
IdleSave ==
  /\ out_arg = NoName /\ disk = NoFile /\ disk0 = NoFile
  /\ save_calls = 0 /\ fault = "none"
  /\ stdout = ""
IdleSnap ==
  /\ browser = "none" /\ navigated = FALSE /\ writes = 0 /\ dom = NoMarkup
  /\ waited = FALSE /\ html_content = NoMarkup
  /\ file = NoHtmlFile /\ file0 = NoHtmlFile

InitParse ==
  /\ pc = "call" /\ response = NoResponse
  /\ result = [kind |-> "none", exc |-> "", value |-> None]
  /\ df = EmptyFrame
  /\ IdleAgg /\ IdleSave /\ IdleSnap

NextParse == GetYearDataCall

SpecParse == InitParse /\ [][NextParse]_vars

\* the collector run from the command line
Init ==
  /\ pc = "main" /\ response = NoResponse /\ result = NoResult
  /\ df = EmptyFrame
  /\ IdleAgg /\ IdleSnap
  /\ out_arg \in OutArgs
  /\ disk0 = NoFile
  /\ disk = disk0
  /\ save_calls = 0 /\ fault = "none" /\ stdout = ""

Next ==
  \/ MainStart
  \/ Fetch
  \/ MergeAndSleep
  \/ BuildTable
  \/ MainCheck
  \/ SaveToExcel("save", "report")
  \/ Report

Spec == Init /\ [][Next]_vars

\* the tables scrape_multiple_years returns for two years of responses
FrameOf(r1, r2) ==
  BuildFrame(Merge(Merge(<<>>, 2019, GetYearData(r1).value),
                   2020, GetYearData(r2).value))
ExportFrames == {FrameOf(r1, r2) : r1 \in AggResponses, r2 \in AggResponses}

\* save_to_excel called on its own
InitExport ==
  /\ pc = "call_save" /\ response = NoResponse /\ result = NoResult
  /\ df \in ExportFrames
  /\ IdleAgg /\ IdleSnap
  /\ out_arg \in OutArgs
  /\ disk0 \in {NoFile, PartialFile}
  /\ disk = disk0
  /\ save_calls = 0 /\ fault = "none" /\ stdout = ""

NextExport == SaveToExcel("call_save", "returned")

SpecExport == InitExport /\ [][NextExport]_vars

\* the snapshot script run once; scraper.html may be there from an earlier run
InitSnap ==
  /\ pc = "launch" /\ response = NoResponse /\ result = NoResult
  /\ df = EmptyFrame
  /\ IdleAgg /\ IdleSave
  /\ browser = "none" /\ navigated = FALSE /\ writes = 0 /\ dom = NoMarkup
  /\ waited = FALSE /\ html_content = NoMarkup
  /\ file0 \in {NoHtmlFile} \cup {HtmlFile(h.text) : h \in Htmls}
  /\ file = file0

NextSnap ==
  \/ Launch
  \/ Get
  \/ Render
  \/ Sleep
  \/ ReadSource
  \/ WriteFile
  \/ Quit
  \/ PrintSaved

SpecSnap == InitSnap /\ [][NextSnap]_vars

(***************************************************************************)
(* Properties.                                                             *)
(***************************************************************************)
AfterTable == {"check", "save", "report", "done"}

\* the keys of a returned dict
KeysOf(v) == Range(DictKeys(v.items))

\* a fetch that failed: a network error, a missing container, a parse error
FailedFetch(r) ==
  \/ r.kind \in RequestExceptions
  \/ r.kind = "page" /\ ~r.container
  \/ TryBody(r).kind = "raise"

\* C1: a year whose fetch fails does not abort scrape_multiple_years: the
\* run never ends in an uncaught failure, every year of the range is fetched,
\* the table has no column for a failed year, and every year whose fetch
\* returned at least one of the month labels has a column holding a rate.
C1_FailedYearOmitted ==
  /\ pc # "crashed"
  /\ pc \in AfterTable =>
       /\ {fetched[i][1] : i \in 1..Len(fetched)} = start_year..end_year
       /\ \A i \in 1..Len(fetched) :
            LET y == fetched[i][1]
                r == fetched[i][2]
                v == fetched[i][3]
            IN /\ FailedFetch(r) => y \notin Range(df.columns)
               /\ KeysOf(v) \cap Range(month_order) # {} =>
                    /\ y \in Range(df.columns)
                    /\ \E m \in KeysOf(v) : HasCell(df, m, y)

\* C1 witness: 2020 times out in 2019-2021, 2019 and 2021 are populated
C1_Witness ==
  /\ pc = "done" /\ start_year = 2019 /\ end_year = 2021
  /\ Len(fetched) = 3
  /\ fetched[2][2] = Failure("Timeout")
  /\ df.columns = <<2019, 2021>>
  /\ HasCell(df, Jan, 2019) /\ HasCell(df, Jan, 2021)

Pos(m) == CHOOSE i \in 1..Len(month_order) : month_order[i] = m

Observed == UNION {KeysOf(fetched[i][3]) : i \in 1..Len(fetched)}

\* C2: the rows of the returned table are the observed month labels in the
\* order of month_order, and its columns are strictly ascending years.
C2_RowAndColumnOrder ==
  pc \in AfterTable =>
    /\ Range(df.index) = Observed \cap Range(month_order)
    /\ \A i, j \in 1..Len(df.index) :
         i < j => Pos(df.index[i]) < Pos(df.index[j])
    /\ \A i, j \in 1..Len(df.columns) :
         i < j => df.columns[i] < df.columns[j]

\* C2 witness: months first seen out of calendar order, beside a text that
\* is no month label, over more than one year
C2_Witness ==
  /\ pc = "done"
  /\ DictKeys(all_data) = <<Foo, Feb, Jan>>
  /\ df.index = <<Jan, Feb>>
  /\ Len(df.columns) >= 2

\* the entries of a page that have both sub-elements and a rate text the
\* pattern matches
Qualifying(es) ==
  {i \in 1..Len(es) : BothSpans(es[i]) /\ HasMatch(Strip(es[i].rate.text))}

\* C3 (as claimed): with the container present, get_year_data returns a
\* mapping holding exactly the entries that have both sub-elements and a
\* rate text matching the pattern, each with the value of the first match.
C3_ExactlyMatchingEntries ==
  (pc = "returned" /\ response.kind = "page" /\ response.container) =>
    LET es == response.entries
        Q  == Qualifying(es)
    IN /\ result.kind = "return"
       /\ ~result.value.isNone
       /\ KeysOf(result.value) = {Strip(es[i].month.text) : i \in Q}
       /\ \A i \in Q :
            (\A j \in Q : j > i => Strip(es[j].month.text) # Strip(es[i].month.text))
              => DictGet(result.value.items, Strip(es[i].month.text))
                   = Float(FirstMatch(Strip(es[i].rate.text)))

\* C4 (as claimed): every key of a returned mapping is one of the 12 month
\* labels and every value is non-negative.
C4_KeysAreMonthLabels ==
  (pc = "returned" /\ ~result.value.isNone) =>
    \A i \in 1..Len(result.value.items) :
      /\ result.value.items[i][1] \in Range(month_order)
      /\ result.value.items[i][2].num >= 0

\* C4 (amended): every key of a returned mapping is the stripped text of a
\* month sub-element of an entry that has both sub-elements, whether or not
\* it is a month label, and every value is non-negative.
C4_KeysStrippedValuesNonNegative ==
  (pc = "returned" /\ ~result.value.isNone) =>
    \A i \in 1..Len(result.value.items) :
      /\ \E k \in 1..Len(response.entries) :
           /\ BothSpans(response.entries[k])
           /\ result.value.items[i][1] = Strip(response.entries[k].month.text)
      /\ result.value.items[i][2].num >= 0
      /\ result.value.items[i][2].scale >= 0

\* C4 witness: a mapping with a key that is no month label, from a page
\* whose rate text carries a minus sign
C4_Witness ==
  /\ pc = "returned" /\ ~result.value.isNone
  /\ response.entries = <<Li(Span(Foo), Span(<<"-", "5">>)),
                          Li(Span(<<" ", "F", "e", "b", " ">>), Span(R8312))>>
  /\ result.value.items = <<<<Foo, [num |-> 5, scale |-> 0]>>,
                            <<Feb, [num |-> 8312, scale |-> 2]>>>>

\* C5: save_to_excel of a table without rows, the writer not failing,
\* returns the filename and leaves a file whose only row is the header row:
\* the index label and the year columns, and the index label alone when the
\* table has no column either.
C5_EmptyTableHeaderOnly ==
  (pc = "returned" /\ df.index = <<>> /\ fault = "none") =>
    /\ result.kind = "return"
    /\ result.value = Filename(out_arg) /\ ~result.value.isNone
    /\ disk.exists /\ disk.intact
    /\ \A c \in disk.cells : c.row = 1
    /\ {c.val : c \in disk.cells}
         = {LabelCell(MonthLabel)} \cup {YearCell(y) : y \in Range(df.columns)}
    /\ Cardinality(disk.cells) = 1 + Len(df.columns)

\* C5 witness: the table of a run whose every fetch failed is saved
C5_Witness ==
  /\ pc = "returned" /\ df = EmptyFrame /\ fault = "none"
  /\ result.value = DefaultFilename
  /\ disk.cells = {[row |-> 1, col |-> 1, val |-> LabelCell(MonthLabel)]}

\* C6: save_to_excel never lets a failure of the writer through: it returns
\* None after any failure, and a filename only when writing and formatting
\* completed.
C6_SaveFailureCaught ==
  /\ pc # "crashed"
  /\ pc = "returned" =>
       /\ result.kind = "return"
       /\ fault # "none" => result.value.isNone
       /\ ~result.value.isNone =>
            /\ fault = "none"
            /\ result.value = Filename(out_arg)
            /\ disk = Workbook(df)

\* C6 witness: the formatting step failed and None came back
C6_Witness ==
  /\ pc = "returned" /\ fault = "format"
  /\ result.kind = "return" /\ result.value = NoName
  /\ df.index # <<>>

\* C7: scraper.html is opened for writing only after navigation succeeded,
\* the wait elapsed and the markup was read; a run that ends before
\* navigation succeeded leaves the file as it was.
C7_WriteOnlyAfterRead ==
  /\ writes > 0 => navigated /\ waited /\ html_content.set
  /\ (pc = "crashed" /\ ~navigated) => writes = 0 /\ file = file0
  /\ pc = "done" => writes = 1 /\ file = HtmlFile(html_content.text)

\* C7 witness: navigation failed with an older scraper.html in place
C7_Witness ==
  /\ pc = "crashed" /\ browser = "open" /\ ~navigated
  /\ file0.exists /\ file = file0

\* C8: the years of the range are fetched once each in ascending order, a
\* delay follows every fetch whatever it gave, and an empty range gives no
\* fetch and an empty table.
C8_FetchThenSleep ==
  /\ \A i \in 1..Len(log) :
       log[i] = <<IF i % 2 = 1 THEN "fetch" ELSE "sleep", start_year + ((i - 1) \div 2)>>
  /\ pc = "merge" => Len(log) % 2 = 1
  /\ pc = "loop" => Len(log) = 2 * (year - start_year)
  /\ pc \in AfterTable =>
       /\ Len(log) = 2 * (IF end_year >= start_year THEN end_year - start_year + 1 ELSE 0)
       /\ start_year > end_year => log = <<>> /\ df = EmptyFrame

\* C8 witness: three years fetched, the second failing, a delay after each
C8_Witness ==
  /\ pc = "done" /\ Len(log) = 6
  /\ fetched[2][3].isNone
  /\ log[3] = <<"fetch", 2020>> /\ log[4] = <<"sleep", 2020>>
  /\ log[5] = <<"fetch", 2021>>

\* C9 (as claimed): whenever the script has ended with the browser session
\* started, the session has been closed.
C9_BrowserClosedAtExit ==
  (pc \in {"crashed", "done"} /\ browser # "none") => browser = "closed"

\* C10: main calls save_to_excel at most once and only on a table with rows
\* and columns; when no fetch gave a month label it is not called and the
\* file is untouched; success is printed only after a filename came back.
C10_SaveOnlyNonEmpty ==
  /\ save_calls <= 1
  /\ save_calls = 1 => df.index # <<>> /\ df.columns # <<>>
  /\ save_calls = 0 => disk = disk0
  /\ (pc \in AfterTable /\ Observed \cap Range(month_order) = {}) =>
       /\ pc \in {"check", "done"}
       /\ save_calls = 0
  /\ stdout = "successfully saved" =>
       /\ save_calls = 1
       /\ result.kind = "return" /\ NameTruthy(result.value)

\* C10 witness: every fetch gave only a text that is no month label, and
\* main ended without a call of save_to_excel
C10_Witness ==
  /\ pc = "done" /\ save_calls = 0
  /\ df.columns # <<>> /\ df.index = <<>>
  /\ stdout = "no data was collected"

====
